---- MODULE Spec2Model ----
(***************************************************************************)
(* A model of drg-native-rs: the reconstruction of the host's object table *)
(* (common/src/object.rs, common/src/lib.rs) and the ProcessEvent hook     *)
(* (hook/src/lib.rs).  Pointers are small integers, 0 is the null pointer. *)
(***************************************************************************)
EXTENDS Integers, Sequences, FiniteSets, TLC

\* ------------------------------------------------------------------ bounds

\* Slots the table of SpecWeak may grow to.
MaxSlots == 3
\* Writes the host performs on the table in one behaviour.
MaxHostOps == 2
\* Largest serial number a weak reference is tried with.
MaxSerial == 4

\* -------------------------------------------------------- program constants

NumElementsPerChunk == 65536
MAX_OUTERS == 32
UNREACHABLE == 268435456
PENDING_KILL == 536870912
\* A flag bit the code never tests: the bit above the pending-kill bit.
ROOT_SET == 2 * PENDING_KILL

NULL == 0

VARIABLES
    NumElements,    \* TUObjectArray.NumElements
    items,          \* the slots of the chunked table, by stable index
    nextSerial,     \* the host's serial number counter
    hostOps,        \* host writes performed so far
    ret,            \* the last call of this library and what it returned
    SuperStruct,    \* UStruct.SuperStruct of each class
    NumStructBasesInChainMinusOne,  \* FStructBaseChain, of each class
    StructBaseChainArray,           \* FStructBaseChain, of each class
    iterator,       \* the ObjectIterator in use
    yielded,        \* what its next() has returned so far
    finding,        \* the call of find in progress, step by step
    addr,           \* where ProcessEvent and the code cave lie
    entry,          \* the first bytes of ProcessEvent
    cave,           \* the first bytes of the code cave
    hook,           \* the ProcessEventHook: its two patches
    pc,             \* where the injected thread is in run()
    copy,           \* the Patch::write in progress
    protection,     \* the page protection of the two patched ranges
    fetched,        \* what host threads calling ProcessEvent fetched at its entry
    inside,         \* host threads executing in the trampoline or the callback
    boot,           \* what run() and on_attach have looked up, set and logged
    seen_count,     \* UFunction::seen_count of each function
    RESET_THESE_SEEN_COUNTS,    \* the callback's list of functions to reset
    callers,        \* the host threads inside my_process_event
    reset_iter      \* the iterator of run()'s loop over the list

tableVars == <<NumElements, items, nextSerial>>
classVars == <<SuperStruct, NumStructBasesInChainMinusOne, StructBaseChainArray>>
iterVars == <<iterator, yielded, finding>>
hookVars ==
    <<addr, entry, cave, hook, pc, copy, protection, fetched, inside, boot>>

callbackVars == <<seen_count, RESET_THESE_SEEN_COUNTS, callers, reset_iter>>

vars ==
    <<tableVars, hostOps, ret, classVars, iterVars, hookVars, callbackVars>>

\* ------------------------------------------------------------- bit tests

RECURSIVE BitAnd(_, _)
BitAnd(a, b) ==
    IF a = 0 \/ b = 0 THEN 0
    ELSE (IF a % 2 = 1 /\ b % 2 = 1 THEN 1 ELSE 0) + 2 * BitAnd(a \div 2, b \div 2)

is_unreachable(item) == BitAnd(item.Flags, UNREACHABLE) = UNREACHABLE

is_pending_kill(item) == BitAnd(item.Flags, PENDING_KILL) = PENDING_KILL

is_valid(item) == ~is_unreachable(item) /\ ~is_pending_kill(item)

\* ------------------------------------------------------ the table's memory

\* A pointer to a slot, the null pointer, or a pointer computed out of the
\* bounds of the chunk array.
SlotPtr(chunk, offset) == [kind |-> "slot", index |-> chunk * NumElementsPerChunk + offset]
NullPtr == [kind |-> "null", index |-> -1]
WildPtr == [kind |-> "wild", index |-> -1]
\* The out-of-bounds read may also fault instead of producing a pointer.
Fault == [kind |-> "fault", index |-> -1]
\* A pointer-sized value read from memory the table does not own.
GARBAGE == -1

\* FUObjectArray::index_to_object.  A negative index passes `index < NumElements`
\* and `index as usize` then sign-extends it to 2^64 + index, so the chunk
\* pointer is read far outside the chunk array: the pointer that comes back is
\* whatever that read produced.
index_to_object_neg_null(index) ==
    IF index >= 0 /\ index < NumElements
        THEN SlotPtr(index \div NumElementsPerChunk, index % NumElementsPerChunk)
        ELSE NullPtr

index_to_object(index) ==
    IF index < NumElements
        THEN IF index >= 0
                THEN SlotPtr(index \div NumElementsPerChunk, index % NumElementsPerChunk)
                ELSE WildPtr
        ELSE NullPtr

\* FWeakObjectPtr::get: the object returned and the slot pointers dereferenced.
WeakGet_no_serial(wp) ==
    IF wp.ObjectSerialNumber = 0 \/ wp.ObjectIndex < 0
        THEN [object |-> NULL, read |-> {}]
        ELSE LET object_item == index_to_object(wp.ObjectIndex) IN
             IF object_item.kind = "null"
                THEN [object |-> NULL, read |-> {}]
             ELSE IF object_item.kind = "wild"
                THEN [object |-> GARBAGE, read |-> {object_item}]
             ELSE IF ~is_valid(items[object_item.index])
                THEN [object |-> NULL, read |-> {object_item}]
             ELSE [object |-> items[object_item.index].Object, read |-> {object_item}]

WeakGet(wp) ==
    IF wp.ObjectSerialNumber = 0 \/ wp.ObjectIndex < 0
        THEN [object |-> NULL, read |-> {}]
        ELSE LET object_item == index_to_object(wp.ObjectIndex) IN
             IF object_item.kind = "null"
                THEN [object |-> NULL, read |-> {}]
             ELSE IF object_item.kind = "wild"
                \* the slot record read is outside the table
                THEN [object |-> GARBAGE, read |-> {object_item}]
             ELSE IF items[object_item.index].SerialNumber # wp.ObjectSerialNumber
                     \/ ~is_valid(items[object_item.index])
                THEN [object |-> NULL, read |-> {object_item}]
             ELSE [object |-> items[object_item.index].Object, read |-> {object_item}]

\* What the build can produce for a pointer computed by index_to_object.
Outcomes(ptr) == IF ptr.kind = "wild" THEN {WildPtr, Fault} ELSE {ptr}

\* ------------------------------------------------------------ the host

\* The slot of a live object: UObject::InternalIndex is the slot's index, and
\* object i + 1 lives in slot i.
LiveSlot(i) == [Object |-> i + 1, Flags |-> IF i = 0 THEN ROOT_SET ELSE 0, SerialNumber |-> i + 1]
FreeSlot == [Object |-> NULL, Flags |-> 0, SerialNumber |-> 0]

NoCall == [op |-> "none", arg |-> <<>>, res |-> <<>>]

\* The parts of the state a specification does not use.
NoClasses ==
    /\ SuperStruct = <<>>
    /\ NumStructBasesInChainMinusOne = <<>>
    /\ StructBaseChainArray = <<>>

NoIterator ==
    /\ iterator = [num_objects |-> 0, index |-> 0]
    /\ yielded = <<>>
    /\ finding = <<>>

NoCallback ==
    /\ seen_count = <<>>
    /\ RESET_THESE_SEEN_COUNTS = <<>>
    /\ callers = <<>>
    /\ reset_iter = <<>>

NoHook ==
    /\ addr = <<>>
    /\ entry = <<>>
    /\ cave = <<>>
    /\ hook = <<>>
    /\ pc = "none"
    /\ copy = <<>>
    /\ protection = <<>>
    /\ fetched = <<>>
    /\ inside = 0
    /\ boot = <<>>

HostBudget == hostOps < MaxHostOps

\* TUObjectArray.MaxElements: the slots the host has reserved memory for.
MaxElements == Cardinality(DOMAIN items)

\* The host allocates an object: the table grows by one slot.
HostCreate ==
    /\ HostBudget
    /\ NumElements < MaxElements
    /\ items' = [items EXCEPT ![NumElements] =
                    [Object |-> NumElements + 1, Flags |-> 0, SerialNumber |-> 0]]
    /\ NumElements' = NumElements + 1
    /\ hostOps' = hostOps + 1
    /\ UNCHANGED <<nextSerial, ret, classVars, iterVars, hookVars, callbackVars>>

\* The host frees the object of slot i: the slot keeps its place, its pointer
\* is cleared and its serial number and flags are reset.
HostDestroy(i) ==
    /\ HostBudget
    /\ i < NumElements
    /\ items[i].Object # NULL
    /\ items' = [items EXCEPT ![i] = FreeSlot]
    /\ hostOps' = hostOps + 1
    /\ UNCHANGED <<NumElements, nextSerial, ret, classVars, iterVars, hookVars, callbackVars>>

\* The host's garbage collector marks slot i.
HostMark(i, bit) ==
    /\ HostBudget
    /\ i < NumElements
    /\ items[i].Object # NULL
    /\ BitAnd(items[i].Flags, bit) = 0
    /\ items' = [items EXCEPT ![i].Flags = @ + bit]
    /\ hostOps' = hostOps + 1
    /\ UNCHANGED <<NumElements, nextSerial, ret, classVars, iterVars, hookVars, callbackVars>>

\* The host reuses the freed slot i for a new object, which gets a new
\* serial number when the first weak reference to it is made.
HostReuse(i) ==
    /\ HostBudget
    /\ i < NumElements
    /\ items[i].Object = NULL
    /\ items' = [items EXCEPT ![i] =
                    [Object |-> MaxElements + i + 1, Flags |-> 0, SerialNumber |-> nextSerial]]
    /\ nextSerial' = nextSerial + 1
    /\ hostOps' = hostOps + 1
    /\ UNCHANGED <<NumElements, ret, classVars, iterVars, hookVars, callbackVars>>

Host ==
    \/ HostCreate
    \/ \E i \in DOMAIN items : HostDestroy(i)
    \/ \E i \in DOMAIN items : \E bit \in {UNREACHABLE, PENDING_KILL} : HostMark(i, bit)
    \/ \E i \in DOMAIN items : HostReuse(i)

\* ------------------------------------------------- weak references, lookup

WeakPtrs == [ObjectIndex : -1 .. MaxSlots + 1, ObjectSerialNumber : 0 .. MaxSerial]

CallGet(wp) ==
    /\ ret' = [op |-> "get", arg |-> wp, res |-> WeakGet(wp)]
    /\ UNCHANGED <<tableVars, hostOps, classVars, iterVars, hookVars, callbackVars>>

CallIndexToObject(index) ==
    /\ \E ptr \in Outcomes(index_to_object(index)) :
            ret' = [op |-> "index_to_object", arg |-> index, res |-> ptr]
    /\ UNCHANGED <<tableVars, hostOps, classVars, iterVars, hookVars, callbackVars>>

InitWeak ==
    /\ NumElements \in 0 .. MaxSlots
    /\ items = [i \in 0 .. MaxSlots - 1 |-> IF i < NumElements THEN LiveSlot(i) ELSE FreeSlot]
    /\ nextSerial = MaxSlots + 1
    /\ hostOps = 0
    /\ ret = NoCall
    /\ NoClasses /\ NoIterator /\ NoHook /\ NoCallback

NextWeak ==
    \/ Host
    \/ \E wp \in WeakPtrs : CallGet(wp)
    \/ \E index \in -2 .. MaxSlots + 1 : CallIndexToObject(index)

SpecWeak == InitWeak /\ [][NextWeak]_vars

\* The validity invariant of a slot as the data model states it: the object
\* pointer is non-null and bits 28 (unreachable) and 29 (pending kill) are clear.
SlotPassesInvariant(item) ==
    /\ item.Object # NULL
    /\ (item.Flags \div 268435456) % 2 = 0
    /\ (item.Flags \div 536870912) % 2 = 0

InTable(index) == index >= 0 /\ index < NumElements

\* C1: FWeakObjectPtr::get returns a non-null object only for an index inside
\* [0, NumElements) whose slot has the stored serial number and passes the
\* validity invariant, and then it is that slot's object; it dereferences no
\* slot record outside the table; a slot whose serial number differs from the
\* stored one gives null whatever its Object field holds.
C1_WeakGetOnlyLiveMatchingSlot ==
    [][(ret' # ret /\ ret'.op = "get") =>
        LET wp == ret'.arg
            r == ret'.res
        IN  /\ r.object # NULL =>
                /\ InTable(wp.ObjectIndex)
                /\ items[wp.ObjectIndex].SerialNumber = wp.ObjectSerialNumber
                /\ SlotPassesInvariant(items[wp.ObjectIndex])
                /\ r.object = items[wp.ObjectIndex].Object
            /\ \A ptr \in r.read : ptr.kind = "slot" /\ InTable(ptr.index)
            /\ ~InTable(wp.ObjectIndex) => r.read = {}
            /\ (InTable(wp.ObjectIndex)
                    /\ items[wp.ObjectIndex].SerialNumber # wp.ObjectSerialNumber)
                  => r.object = NULL]_vars

\* C1 witness: a weak reference with a stale serial number was resolved to null
\* against a reused slot that holds a live object.
C1_Witness ==
    /\ ret.op = "get"
    /\ ret.res.object = NULL
    /\ InTable(ret.arg.ObjectIndex)
    /\ ret.arg.ObjectSerialNumber # 0
    /\ SlotPassesInvariant(items[ret.arg.ObjectIndex])
    /\ items[ret.arg.ObjectIndex].SerialNumber # ret.arg.ObjectSerialNumber
    /\ items[ret.arg.ObjectIndex].SerialNumber = nextSerial - 1

\* C6 as claimed: index_to_object(i) returns the pointer to slot i exactly when
\* 0 <= i < NumElements and the null pointer for every other i, negative ones
\* included.
C6_IndexToObjectNullOutsideTable ==
    [][(ret' # ret /\ ret'.op = "index_to_object") =>
        IF InTable(ret'.arg)
            THEN ret'.res = [kind |-> "slot", index |-> ret'.arg]
            ELSE ret'.res = NullPtr]_vars

\* ------------------------------------------------------- the object graph

\* Interned names, as the bytes FName::text returns.
Foo == <<"F", "o", "o">>
Bar == <<"B", "a", "r">>
Class == <<"C", "l", "a", "s", "s">>
Zone1 == <<"Z", "o", "n", "e", "1">>
Level1 == <<"L", "e", "v", "e", "l", "1">>
Z == <<"Z">>
Y == <<"Y">>

Obj(name, class, outer) == [NamePrivate |-> name, ClassPrivate |-> class, OuterPrivate |-> outer]

\* The objects the host has named: two classes, a package, and objects inside
\* it; objects 5 and 8 differ only in the number of their name.
NamedObjects ==
    << Obj(Class, 1, NULL),     \* 1  Class Class
       Obj(Bar, 1, NULL),       \* 2  Class Bar
       Obj(Level1, 1, NULL),    \* 3  Class Level1
       Obj(Zone1, 2, 3),        \* 4  Bar Level1.Zone1
       Obj(Foo, 2, 4),          \* 5  Bar Level1.Zone1.Foo
       Obj(Foo, 2, 3),          \* 6  Bar Level1.Foo
       Obj(Foo, 1, 4),          \* 7  Class Level1.Zone1.Foo
       Obj(Foo, 2, 4),          \* 8  Bar Level1.Zone1.Foo_1
       Obj(Foo, 2, NULL) >>     \* 9  Bar Foo

\* A chain of nested objects, each the outer of the next, deep enough to
\* have objects with MAX_OUTERS outers and more; the outermost is named Y,
\* the others Z.
DeepLen == MAX_OUTERS + 2
NumObjs == Len(NamedObjects) + DeepLen

\* Objects whose chain of outers has no end: one that is its own outer, and
\* two that are each other's outer.
SelfOuter == NumObjs + 1
PairA == NumObjs + 2
PairB == NumObjs + 3
CyclicObjects ==
    << Obj(Z, 2, SelfOuter),    \* Bar Z.Z.Z. ... .Z
       Obj(Foo, 2, PairB),      \* Bar ... .Foo.Zone1.Foo
       Obj(Zone1, 2, PairA) >>  \* Bar ... .Zone1.Foo.Zone1

UObject(o) ==
    IF o <= Len(NamedObjects) THEN NamedObjects[o]
    ELSE IF o = Len(NamedObjects) + 1 THEN Obj(Y, 2, NULL)
    ELSE IF o <= NumObjs THEN Obj(Z, 2, o - 1)
    ELSE CyclicObjects[o - NumObjs]

\* UObject::name
name(o) == UObject(o).NamePrivate

\* --------------------------------------------------------- qualified names

RECURSIVE JoinDots(_)
JoinDots(tokens) ==
    IF Len(tokens) = 1 THEN tokens[1]
    ELSE tokens[1] \o <<".">> \o JoinDots(Tail(tokens))

\* The text "Class Outer1.Outer2.Name" of a class, a path of outers written
\* outermost first, and a name.
QualifiedText(class, path, nm) == class \o <<" ">> \o JoinDots(path \o <<nm>>)

RECURSIVE Position(_, _, _)
Position(text, c, from) ==
    IF from > Len(text) THEN 0
    ELSE IF text[from] = c THEN from
    ELSE Position(text, c, from + 1)

\* ReverseSplitIterator: the pieces of text between the separators, last
\* piece first.
RECURSIVE ReverseSplit(_, _)
ReverseSplit(text, c) ==
    LET p == Position(text, c, 1) IN
    IF p = 0 THEN <<text>>
    ELSE ReverseSplit(SubSeq(text, p + 1, Len(text)), c) \o <<SubSeq(text, 1, p - 1)>>

\* FullName::<MAX_OUTERS>::try_from: the class up to the first space, then the
\* dotted path read from its end: the name, then the outers innermost first.
\* More outers than the list holds is an error, as is a text with no space.
FullName(text) ==
    LET space == Position(text, " ", 1) IN
    IF space = 0
        THEN [ok |-> FALSE, err |-> "NoSpace", class |-> <<>>, name |-> <<>>, outers |-> <<>>]
    ELSE LET pieces == ReverseSplit(SubSeq(text, space + 1, Len(text)), ".") IN
         IF Len(pieces) - 1 > MAX_OUTERS
            THEN [ok |-> FALSE, err |-> "TooManyOuters",
                  class |-> <<>>, name |-> <<>>, outers |-> <<>>]
            ELSE [ok |-> TRUE, err |-> "",
                  class |-> SubSeq(text, 1, space - 1),
                  name |-> Head(pieces),
                  outers |-> Tail(pieces)]

\* ------------------------------------------------------------------- find

\* Largest number of outers in the short queries tried.
MaxQueryOuters == 2

\* Largest number of objects the host frees while find is in use.
MaxDestroyed == 1

\* A result of find, with the number of table entries the scan took from the
\* iterator before it returned.
Ok(object, visited) ==
    [kind |-> "Ok", err |-> "", object |-> object, text |-> <<>>, visited |-> visited]
Err(err, text, visited) ==
    [kind |-> "Err", err |-> err, object |-> NULL, text |-> text, visited |-> visited]

\* The walk up a candidate's outer chain against the target's outers
\* (object.rs:125-145), from the k-th target outer on: TRUE when every target
\* outer is matched in turn.
RECURSIVE OutersMatch_ignore_exhausted(_, _, _)
OutersMatch_ignore_exhausted(my_outer, outers, k) ==
    IF k > Len(outers) THEN TRUE
    ELSE IF my_outer = NULL THEN TRUE
    ELSE IF name(my_outer) # outers[k] THEN FALSE
    ELSE OutersMatch_ignore_exhausted(UObject(my_outer).OuterPrivate, outers, k + 1)

\* A walk that also requires the candidate's chain to end with the target's.
RECURSIVE OutersMatch_exact(_, _, _)
OutersMatch_exact(my_outer, outers, k) ==
    IF k > Len(outers) THEN my_outer = NULL
    ELSE IF my_outer = NULL THEN FALSE
    ELSE IF name(my_outer) # outers[k] THEN FALSE
    ELSE OutersMatch_exact(UObject(my_outer).OuterPrivate, outers, k + 1)

RECURSIVE OutersMatch(_, _, _)
OutersMatch(my_outer, outers, k) ==
    IF k > Len(outers) THEN TRUE
    ELSE IF my_outer = NULL THEN FALSE
    ELSE IF name(my_outer) # outers[k] THEN FALSE
    ELSE OutersMatch(UObject(my_outer).OuterPrivate, outers, k + 1)

\* One candidate of the scan (object.rs:109-149): its name, then its class's
\* name, then its outers.
Matches(object, target) ==
    /\ name(object) = target.name
    /\ name(UObject(object).ClassPrivate) = target.class
    /\ OutersMatch(UObject(object).OuterPrivate, target.outers, 1)

\* A scan that keeps the last object that matches.
RECURSIVE Scan_last_match(_, _, _, _)
Scan_last_match(index, num_objects, target, text) ==
    IF index < num_objects
        THEN LET object == items[index].Object
                 rest == Scan_last_match(index + 1, num_objects, target, text)
             IN  IF rest.kind = "Ok" THEN rest
                 ELSE IF object # NULL /\ Matches(object, target)
                    THEN Ok(object, index + 1)
                    ELSE rest
        ELSE Err("UnableToFind", text, index)

\* The loop over ObjectIterator: the first non-null object that matches.
RECURSIVE Scan(_, _, _, _)
Scan(index, num_objects, target, text) ==
    IF index < num_objects
        THEN LET object == items[index].Object IN
             IF object # NULL /\ Matches(object, target)
                THEN Ok(object, index + 1)
                ELSE Scan(index + 1, num_objects, target, text)
        ELSE Err("UnableToFind", text, index)

\* A find that keeps the outers that fit instead of failing.
find_truncating(text) ==
    LET target == CHOOSE t \in {FullName(text)} : TRUE
        space == Position(text, " ", 1)
        pieces == ReverseSplit(SubSeq(text, space + 1, Len(text)), ".")
    IN  IF target.ok THEN Scan(0, NumElements, target, text)
        ELSE IF target.err = "TooManyOuters"
            THEN Scan(0, NumElements,
                      [ok |-> TRUE, err |-> "", class |-> SubSeq(text, 1, space - 1),
                       name |-> Head(pieces),
                       outers |-> SubSeq(Tail(pieces), 1, MAX_OUTERS)], text)
        ELSE Err(target.err, <<>>, 0)

\* FUObjectArray::find
find(text) ==
    LET target == CHOOSE t \in {FullName(text)} : TRUE IN
    IF ~target.ok THEN Err(target.err, <<>>, 0)
    ELSE Scan(0, NumElements, target, text)

\* The paths of outers, outermost first, of the queries tried.
RECURSIVE Paths(_)
Paths(n) ==
    IF n = 0 THEN {<<>>}
    ELSE Paths(n - 1) \cup {<<o>> \o p : o \in {Level1, Zone1}, p \in {q \in Paths(n - 1) : Len(q) = n - 1}}

DeepPath(n) == [i \in 1 .. n |-> Z]

QueryTokens ==
    [class : {Bar, Class}, path : Paths(MaxQueryOuters), name : {Foo, Zone1}]
    \cup [class : {Bar}, path : {DeepPath(n) : n \in MAX_OUTERS .. MAX_OUTERS + 1},
          name : {Z}]

\* The text of each query.
TextOf == [q \in QueryTokens |-> QualifiedText(q.class, q.path, q.name)]

\* The texts find is called with: the queries, and two texts with no space.
Queries == {TextOf[q] : q \in QueryTokens} \cup {<<>>, Foo}

CallFind(text) ==
    /\ ret' = [op |-> "find", arg |-> text, res |-> find(text)]
    /\ UNCHANGED <<tableVars, hostOps, classVars, iterVars, hookVars, callbackVars>>

\* The host frees an object that no live object names as its outer or class.
HostDestroyLeaf(i) ==
    /\ hostOps < MaxDestroyed
    /\ \A k \in 0 .. NumElements - 1 :
            items[k].Object # NULL =>
                /\ UObject(items[k].Object).OuterPrivate # i + 1
                /\ UObject(items[k].Object).ClassPrivate # i + 1
    /\ HostDestroy(i)

InitFind ==
    /\ NumElements = NumObjs
    /\ items = [i \in 0 .. NumObjs - 1 |-> LiveSlot(i)]
    /\ nextSerial = NumObjs + 1
    /\ hostOps = 0
    /\ ret = NoCall
    /\ NoClasses /\ NoIterator /\ NoHook /\ NoCallback

NextFind ==
    \/ \E i \in DOMAIN items : HostDestroyLeaf(i)
    \/ \E text \in Queries : CallFind(text)

SpecFind == InitFind /\ [][NextFind]_vars

\* Largest number of marks the garbage collector sets while find is in use.
MaxMarked == 1

\* The host's garbage collector marks one of the named objects.
HostMarkNamed(i, bit) ==
    /\ hostOps < MaxMarked
    /\ i < Len(NamedObjects)
    /\ HostMark(i, bit)

\* find on a table the garbage collector is marking.
NextFindGC ==
    \/ \E i \in DOMAIN items : \E bit \in {UNREACHABLE, PENDING_KILL} :
            HostMarkNamed(i, bit)
    \/ \E text \in Queries : CallFind(text)

SpecFindGC == InitFind /\ [][NextFindGC]_vars

RECURSIVE Reverse(_)
Reverse(seq) == IF seq = <<>> THEN <<>> ELSE Reverse(Tail(seq)) \o <<Head(seq)>>

\* The outers of an object, the innermost first, up to the root.
RECURSIVE OuterChain(_)
OuterChain(o) ==
    IF UObject(o).OuterPrivate = NULL THEN <<>>
    ELSE <<UObject(o).OuterPrivate>> \o OuterChain(UObject(o).OuterPrivate)

Outers == [o \in 1 .. NumObjs |-> OuterChain(o)]

\* The outer tokens of each query, innermost first.
OuterTokens == [q \in QueryTokens |-> Reverse(q.path)]

\* An object answers a query: its name, its class's name, and its k-th outer,
\* which exists and has the name of the k-th outer token.
Answers(o, q) ==
    /\ UObject(o).NamePrivate = q.name
    /\ UObject(UObject(o).ClassPrivate).NamePrivate = q.class
    /\ Len(q.path) <= Len(Outers[o])
    /\ \A k \in 1 .. Len(q.path) :
            UObject(Outers[o][k]).NamePrivate = OuterTokens[q][k]

BarLevel1Zone1Foo ==
    <<"B", "a", "r", " ", "L", "e", "v", "e", "l", "1", ".",
      "Z", "o", "n", "e", "1", ".", "F", "o", "o">>
BarLevel1Foo == <<"B", "a", "r", " ", "L", "e", "v", "e", "l", "1", ".", "F", "o", "o">>

\* C2: for a query whose outers fit, find returns Ok(o) only for a non-null
\* object o of the table whose name, class name and k-th outers are the
\* query's tokens, and UnableToFind with the query text when the table holds no
\* such object; "Bar Level1.Zone1.Foo" resolves to the object Foo of class Bar
\* with outers [Zone1, Level1], and "Bar Level1.Foo" is not found when no Foo
\* lies directly in Level1.
C2_FindReturnsOnlyFullMatch ==
    [][(ret' # ret /\ ret'.op = "find") =>
        /\ \A q \in QueryTokens :
            (TextOf[q] = ret'.arg /\ Len(q.path) <= MAX_OUTERS) =>
                /\ ret'.res.kind = "Ok" =>
                    /\ ret'.res.object # NULL
                    /\ \E i \in 0 .. NumElements - 1 : items[i].Object = ret'.res.object
                    /\ Answers(ret'.res.object, q)
                /\ (\A i \in 0 .. NumElements - 1 :
                        items[i].Object = NULL \/ ~Answers(items[i].Object, q))
                    => /\ ret'.res.kind = "Err"
                       /\ ret'.res.err = "UnableToFind"
                       /\ ret'.res.text = ret'.arg
        /\ (ret'.arg = BarLevel1Zone1Foo /\ items[4].Object = 5)
                => (ret'.res.kind = "Ok" /\ ret'.res.object = 5)
        /\ (ret'.arg = BarLevel1Foo /\ items[5].Object = NULL)
                => (ret'.res.kind = "Err" /\ ret'.res.err = "UnableToFind"
                    /\ ret'.res.text = BarLevel1Foo)]_vars

\* C2 witness: "Bar Level1.Foo" was not found in a table that holds the object
\* Bar Level1.Zone1.Foo and no Foo directly inside Level1.
C2_Witness ==
    /\ ret.op = "find"
    /\ ret.arg = BarLevel1Foo
    /\ ret.res.kind = "Err"
    /\ ret.res.err = "UnableToFind"
    /\ items[4].Object = 5
    /\ items[5].Object = NULL

\* C3: a query with more than MAX_OUTERS outers makes find return the parse
\* error, with no table entry examined and no object returned, also when the
\* table holds an object that matches the first MAX_OUTERS outers.
C3_TooManyOutersRejected ==
    [][(ret' # ret /\ ret'.op = "find") =>
        \A q \in QueryTokens :
            (TextOf[q] = ret'.arg /\ Len(q.path) > MAX_OUTERS) =>
                /\ ret'.res.kind = "Err"
                /\ ret'.res.err = "TooManyOuters"
                /\ ret'.res.object = NULL
                /\ ret'.res.visited = 0]_vars

\* C3 witness: a query of MAX_OUTERS + 1 outers was rejected while the table
\* held an object whose innermost MAX_OUTERS outers, name and class it names.
C3_Witness ==
    /\ ret.op = "find"
    /\ ret.arg = QualifiedText(Bar, DeepPath(MAX_OUTERS + 1), Z)
    /\ ret.res.kind = "Err"
    /\ ret.res.err = "TooManyOuters"
    /\ \E i \in 0 .. NumElements - 1 :
            /\ items[i].Object # NULL
            /\ Answers(items[i].Object, [class |-> Bar, path |-> DeepPath(MAX_OUTERS), name |-> Z])

\* ------------------------------------------------------ the ancestor test

\* C17: the result of find is fixed by the query text and the table: it is
\* the object of the smallest table index whose object answers the query,
\* reached after exactly the entries up to it, or UnableToFind with the
\* query text after the whole table when no object answers it.
C17_FindPicksSmallestIndex ==
    [][(ret' # ret /\ ret'.op = "find") =>
        \A q \in QueryTokens :
            (TextOf[q] = ret'.arg /\ Len(q.path) <= MAX_OUTERS) =>
                LET hits == {i \in 0 .. NumElements - 1 :
                                /\ items[i].Object # NULL
                                /\ Answers(items[i].Object, q)}
                IN  IF hits = {}
                    THEN /\ ret'.res.kind = "Err"
                         /\ ret'.res.err = "UnableToFind"
                         /\ ret'.res.text = ret'.arg
                         /\ ret'.res.visited = NumElements
                    ELSE \E i \in hits :
                            /\ \A j \in hits : i <= j
                            /\ ret'.res.kind = "Ok"
                            /\ ret'.res.object = items[i].Object
                            /\ ret'.res.visited = i + 1]_vars

\* C17 witness: two live objects are both Bar Level1.Zone1.Foo and find
\* returned the one at the smaller index.
C17_Witness ==
    /\ ret.op = "find"
    /\ ret.arg = BarLevel1Zone1Foo
    /\ items[4].Object = 5
    /\ items[7].Object = 8
    /\ ret.res.kind = "Ok"
    /\ ret.res.object = 5
    /\ ret.res.visited = 5

\* C21: a candidate with more outers than the query names is returned when
\* its name, its class's name and its innermost outers are the query's
\* tokens in order and no earlier table entry answers the query: its
\* outermost outers are not compared.
C21_FindMatchesChainPrefix ==
    [][(ret' # ret /\ ret'.op = "find") =>
        \A q \in QueryTokens :
            (TextOf[q] = ret'.arg /\ Len(q.path) <= MAX_OUTERS) =>
                LET hits == {i \in 0 .. NumElements - 1 :
                                /\ items[i].Object # NULL
                                /\ name(items[i].Object) = q.name
                                /\ name(UObject(items[i].Object).ClassPrivate)
                                        = q.class
                                /\ Len(Outers[items[i].Object]) >= Len(q.path)
                                /\ \A k \in 1 .. Len(q.path) :
                                        name(Outers[items[i].Object][k])
                                            = OuterTokens[q][k]}
                IN  \A i \in hits :
                        (/\ Len(Outers[items[i].Object]) > Len(q.path)
                         /\ \A j \in hits : i <= j)
                        => /\ ret'.res.kind = "Ok"
                           /\ ret'.res.object = items[i].Object]_vars

\* C21 witness: "Bar Foo" resolved to the object Bar Level1.Zone1.Foo, which
\* has two outers, while the table also holds the object Bar Foo with none.
C21_Witness ==
    /\ ret.op = "find"
    /\ ret.arg = QualifiedText(Bar, <<>>, Foo)
    /\ ret.res.kind = "Ok"
    /\ ret.res.object = 5
    /\ Len(Outers[5]) = 2
    /\ items[8].Object = 9
    /\ Outers[9] = <<>>

\* C12: every table entry find takes an object from passes the slot validity
\* invariant: each non-null slot the scan examined, and the slot of the
\* object it returns, has its unreachable and pending-kill bits clear.
C12_FindChecksValidity ==
    [][(ret' # ret /\ ret'.op = "find") =>
        \A i \in 0 .. ret'.res.visited - 1 :
            items[i].Object # NULL => is_valid(items[i])]_vars


\* Classes the host has registered.
MaxClasses == 3
\* Entries of base-chain arrays rewritten in one behaviour.
MaxPokes == 1

Classes == 1 .. MaxClasses

\* The address of a class's struct_base_chain field, which is what the
\* base-chain arrays hold.
ChainPtr(class) == [struct_base_chain_of |-> class]

\* The array the host builds for a class: its ancestors from the root down,
\* then the class itself.
RECURSIVE BaseChain(_, _)
BaseChain(super, class) ==
    IF super[class] = NULL THEN <<ChainPtr(class)>>
    ELSE BaseChain(super, super[class]) \o <<ChainPtr(class)>>

\* *self.StructBaseChainArray.add(index): the array has
\* NumStructBasesInChainMinusOne + 1 entries.
ChainRead(class, index) ==
    IF index + 1 \in DOMAIN StructBaseChainArray[class]
        THEN StructBaseChainArray[class][index + 1]
        ELSE GARBAGE

FStructBaseChain_is_strict(self, parent) ==
    LET parent_index == NumStructBasesInChainMinusOne[parent]
        child_index == NumStructBasesInChainMinusOne[self]
    IN  parent_index < child_index /\ ChainRead(self, parent_index) = ChainPtr(parent)

\* FStructBaseChain::is
FStructBaseChain_is(self, parent) ==
    LET parent_index == NumStructBasesInChainMinusOne[parent]
        child_index == NumStructBasesInChainMinusOne[self]
    IN  parent_index <= child_index /\ ChainRead(self, parent_index) = ChainPtr(parent)

\* UStruct::is
UStruct_is(self, parent) == FStructBaseChain_is(self, parent)

CallIs(self, parent) ==
    /\ ret' = [op |-> "is", arg |-> <<self, parent>>, res |-> UStruct_is(self, parent)]
    /\ UNCHANGED <<tableVars, hostOps, classVars, iterVars, hookVars, callbackVars>>

\* An entry of a class's base-chain array is overwritten with another pointer.
HostPokeChain(class, index, ptr) ==
    /\ hostOps < MaxPokes
    /\ index + 1 \in DOMAIN StructBaseChainArray[class]
    /\ StructBaseChainArray[class][index + 1] # ptr
    /\ StructBaseChainArray' = [StructBaseChainArray EXCEPT ![class][index + 1] = ptr]
    /\ hostOps' = hostOps + 1
    /\ UNCHANGED <<tableVars, ret, SuperStruct, NumStructBasesInChainMinusOne,
                   iterVars, hookVars, callbackVars>>

InitIs ==
    /\ SuperStruct \in {super \in [Classes -> {NULL} \cup Classes] :
                            \A class \in Classes : super[class] < class}
    /\ StructBaseChainArray = [class \in Classes |-> BaseChain(SuperStruct, class)]
    /\ NumStructBasesInChainMinusOne =
            [class \in Classes |-> Len(BaseChain(SuperStruct, class)) - 1]
    /\ NumElements = 0
    /\ items = <<>>
    /\ nextSerial = 1
    /\ hostOps = 0
    /\ ret = NoCall
    /\ NoIterator /\ NoHook /\ NoCallback

NextIs ==
    \/ \E self \in Classes, parent \in Classes : CallIs(self, parent)
    \/ \E class \in Classes, index \in 0 .. MaxClasses - 1 :
            \E ptr \in {ChainPtr(c) : c \in Classes} : HostPokeChain(class, index, ptr)

SpecIs == InitIs /\ [][NextIs]_vars

\* A class and its superclasses, by SuperStruct.
RECURSIVE SelfAndSupers(_)
SelfAndSupers(class) ==
    IF class = NULL THEN {} ELSE {class} \cup SelfAndSupers(SuperStruct[class])

\* C4: is(C, P) is true exactly when P's chain index is at most C's and C's
\* base-chain array holds P's pointer at P's chain index; on the arrays as the
\* host built them that is exactly when P is C or a superclass of C, and it is
\* false once that entry holds another pointer.
C4_IsIffChainEntry ==
    [][(ret' # ret /\ ret'.op = "is") =>
        LET C == ret'.arg[1]
            P == ret'.arg[2]
            at == NumStructBasesInChainMinusOne[P]
        IN  /\ ret'.res <=>
                /\ at <= NumStructBasesInChainMinusOne[C]
                /\ StructBaseChainArray[C][at + 1] = [struct_base_chain_of |-> P]
            /\ hostOps = 0 => (ret'.res <=> P \in SelfAndSupers(C))
            /\ (at <= NumStructBasesInChainMinusOne[C]
                    /\ StructBaseChainArray[C][at + 1] # [struct_base_chain_of |-> P])
                => ~ret'.res]_vars

\* C4 witness: the test gave false for a superclass P of C after C's array
\* entry at P's chain index was overwritten.
C4_Witness ==
    /\ ret.op = "is"
    /\ ret.res = FALSE
    /\ ret.arg[1] # ret.arg[2]
    /\ ret.arg[2] \in SelfAndSupers(ret.arg[1])
    /\ hostOps = 1
    /\ StructBaseChainArray[ret.arg[1]][NumStructBasesInChainMinusOne[ret.arg[2]] + 1]
            # ChainPtr(ret.arg[2])

\* --------------------------------------------------------------- iteration

\* Slots of the table that is iterated.
MaxIterSlots == 10
\* Host writes on the table while it is iterated.
MaxIterHostOps == 1

\* The slot at an offset of a chunk: (*chunks.add(chunk)).add(offset).
SlotAt(chunk, offset) == items[chunk * NumElementsPerChunk + offset]

Some(object) == [some |-> TRUE, object |-> object]
None == [some |-> FALSE, object |-> NULL]

\* FUObjectArray::iter
iter == [num_objects |-> NumElements, index |-> 0]

\* A next() that passes over the slots whose object is null.
RECURSIVE ObjectIterator_next_skipping_null(_)
ObjectIterator_next_skipping_null(self) ==
    IF self.index < self.num_objects
        THEN LET object == SlotAt(self.index \div NumElementsPerChunk,
                                  self.index % NumElementsPerChunk).Object
             IN  IF object = NULL
                    THEN ObjectIterator_next_skipping_null([self EXCEPT !.index = @ + 1])
                    ELSE [self |-> [self EXCEPT !.index = @ + 1], item |-> Some(object)]
        ELSE [self |-> self, item |-> None]

\* ObjectIterator::next: the iterator after the call and the item returned.
ObjectIterator_next(self) ==
    IF self.index < self.num_objects
        THEN LET object == SlotAt(self.index \div NumElementsPerChunk,
                                  self.index % NumElementsPerChunk).Object
             IN  [self |-> [self EXCEPT !.index = @ + 1], item |-> Some(object)]
        ELSE [self |-> self, item |-> None]

CallIter ==
    /\ iterator' = iter
    /\ yielded' = <<>>
    /\ ret' = [op |-> "iter", arg |-> <<>>, res |-> <<>>]
    /\ UNCHANGED <<tableVars, hostOps, classVars, hookVars, callbackVars, finding>>

CallNext ==
    /\ ret.op \in {"iter", "next"}
    /\ LET r == ObjectIterator_next(iterator) IN
        /\ iterator' = r.self
        /\ yielded' = IF r.item.some THEN Append(yielded, r.item.object) ELSE yielded
        /\ ret' = [op |-> "next", arg |-> <<>>, res |-> r.item]
    /\ UNCHANGED <<tableVars, hostOps, classVars, hookVars, callbackVars, finding>>

InitIter ==
    /\ NumElements \in 0 .. MaxIterSlots
    /\ items = [i \in 0 .. MaxIterSlots - 1 |-> IF i < NumElements THEN LiveSlot(i) ELSE FreeSlot]
    /\ nextSerial = MaxIterSlots + 1
    /\ hostOps = 0
    /\ ret = NoCall
    /\ NoClasses /\ NoIterator /\ NoHook /\ NoCallback

NextIter ==
    \/ hostOps < MaxIterHostOps /\ HostCreate
    \/ \E i \in DOMAIN items : hostOps < MaxIterHostOps /\ HostDestroy(i)
    \/ CallIter
    \/ CallNext

SpecIter == InitIter /\ [][NextIter]_vars

\* C5: iter() starts at index 0 with the element count of the moment; the k-th
\* next() after it (k from 0) returns the Object pointer of slot k, chunk
\* k div 65536 offset k mod 65536, null or not; and next() returns None exactly
\* when as many items as that element count have been returned.
C5_IterYieldsEverySlotInOrder ==
    [][/\ (ret'.op = "iter" /\ <<ret, iterVars>>' # <<ret, iterVars>>) =>
            /\ iterator'.index = 0
            /\ iterator'.num_objects = NumElements
            /\ yielded' = <<>>
       /\ (ret'.op = "next" /\ <<ret, iterVars>>' # <<ret, iterVars>>) =>
            LET k == Len(yielded) IN
            IF k < iterator.num_objects
                THEN /\ ret'.res.some
                     /\ ret'.res.object =
                            items[(k \div 65536) * 65536 + (k % 65536)].Object
                     /\ yielded' = Append(yielded, ret'.res.object)
                ELSE /\ ~ret'.res.some
                     /\ yielded' = yielded
                     /\ Len(yielded) = iterator.num_objects]_vars

\* C5 witness: the iteration of a 10-slot table whose slot 5 is null has ended
\* after 10 items, of which the 9 non-null ones came in ascending index order
\* and the one at index 5 is null.
C5_Witness ==
    /\ ret.op = "next"
    /\ ~ret.res.some
    /\ NumElements = 10
    /\ items[5].Object = NULL
    /\ yielded = <<1, 2, 3, 4, 5, NULL, 7, 8, 9, 10>>

\* ---------------------------------------------------------------- the hook

\* Addresses are 64-bit, written as their 8 little-endian bytes.

\* a + k for a small k, wrapping at the width of a.
RECURSIVE AddSmall(_, _)
AddSmall(a, k) ==
    IF a = <<>> THEN <<>>
    ELSE <<(a[1] + k) % 256>> \o AddSmall(Tail(a), (a[1] + k) \div 256)

\* a.wrapping_sub(b), byte by byte with a borrow.
RECURSIVE SubBorrow(_, _, _)
SubBorrow(a, b, borrow) ==
    IF a = <<>> THEN <<>>
    ELSE LET d == a[1] - b[1] - borrow IN
         <<IF d < 0 THEN d + 256 ELSE d>>
            \o SubBorrow(Tail(a), Tail(b), IF d < 0 THEN 1 ELSE 0)

wrapping_sub(a, b) == SubBorrow(a, b, 0)

\* `as u32` then to_le_bytes: the low four bytes.
as_u32_le(a) == SubSeq(a, 1, 4)

\* (&mut patch[at..at + len]).copy_from_slice(bytes), at counted from 0.
Splice(patch, at, bytes) ==
    [i \in 1 .. Len(patch) |->
        IF i > at /\ i <= at + Len(bytes) THEN bytes[i - at] ELSE patch[i]]

\* The address of my_process_event in the injected library.
my_process_event == <<\h10, \h32, \h54, \h76, \hFB, \h7F, \h00, \h00>>

\* The signature of ProcessEvent run() searches for (lib.rs:206-228).
ProcessEventSignature ==
    <<\h40, \h55, \h56, \h57, \h41, \h54, \h41, \h55, \h41, \h56,
      \h41, \h57, \h48, \h81, \hEC, \hF0, \h00, \h00, \h00>>

\* The first bytes of the ProcessEvent signature run() searches for.
ProcessEventPrologue == <<\h40, \h55, \h56, \h57, \h41, \h54>>

\* The bytes a code cave may be filled with.
CaveFills == {\hCC, \h00}

PAGE_EXECUTE_READWRITE == \h40
\* The protection of the host's code pages.
PAGE_EXECUTE_READ == \h20
\* The protections under which a store succeeds.
Writable == {PAGE_EXECUTE_READWRITE}

\* A trampoline whose final jump is computed from the address of its
\* opcode instead of the end of the patch.
code_cave_patch_from_opcode(process_event, code_cave, first_six_process_event_bytes) ==
    LET patch == << \h51,
                    \h52,
                    \h41, \h50,
                    \h48, \hB8, \h00, \h00, \h00, \h00, \h00, \h00, \h00, \h00,
                    \hFF, \hD0,
                    \h41, \h58,
                    \h5A,
                    \h59,
                    \h00, \h00, \h00, \h00, \h00, \h00,
                    \hE9, \h00, \h00, \h00, \h00 >>
        with_callback == Splice(patch, 6, my_process_event)
        with_stolen == Splice(with_callback, 20, first_six_process_event_bytes)
        destination == AddSmall(process_event, Len(first_six_process_event_bytes))
        source == AddSmall(code_cave, Len(patch) - 5)
        relative_distance == as_u32_le(wrapping_sub(destination, source))
    IN  Splice(with_stolen, 27, relative_distance)

\* The trampoline written into the code cave (lib.rs:109-161).
code_cave_patch(process_event, code_cave, first_six_process_event_bytes) ==
    LET patch == << \h51,
                    \h52,
                    \h41, \h50,
                    \h48, \hB8, \h00, \h00, \h00, \h00, \h00, \h00, \h00, \h00,
                    \hFF, \hD0,
                    \h41, \h58,
                    \h5A,
                    \h59,
                    \h00, \h00, \h00, \h00, \h00, \h00,
                    \hE9, \h00, \h00, \h00, \h00 >>
        with_callback == Splice(patch, 6, my_process_event)
        with_stolen == Splice(with_callback, 20, first_six_process_event_bytes)
        destination == AddSmall(process_event, Len(first_six_process_event_bytes))
        source == AddSmall(code_cave, Len(patch))
        relative_distance == as_u32_le(wrapping_sub(destination, source))
    IN  Splice(with_stolen, 27, relative_distance)

\* A jump patch without the trailing nop.
jmp_patch_no_nop(process_event, code_cave) ==
    LET patch == <<\hE9, \h00, \h00, \h00, \h00>>
        destination == code_cave
        source == AddSmall(process_event, 5)
        relative_distance == as_u32_le(wrapping_sub(destination, source))
    IN  Splice(patch, 1, relative_distance)

\* The jump written over the entry of ProcessEvent (lib.rs:163-178).
jmp_patch(process_event, code_cave) ==
    LET patch == <<\hE9, \h00, \h00, \h00, \h00, \h90>>
        destination == code_cave
        source == AddSmall(process_event, 5)
        relative_distance == as_u32_le(wrapping_sub(destination, source))
    IN  Splice(patch, 1, relative_distance)

\* The order in which the fields of the ProcessEventHook literal are
\* evaluated (lib.rs:180-183), and the order of ProcessEventHook::drop
\* (lib.rs:96-105).
NewOrder == <<"new_jmp", "new_cave">>

DropOrder_cave_first == <<"drop_cave", "sleep", "drop_jmp">>

DropOrder == <<"drop_jmp", "sleep", "drop_cave">>

\* run() from ProcessEventHook::new on (lib.rs:230-239).
RunOrder ==
    <<"current", "name_pool", "object_array", "global_engine", "code_cave",
      "process_event", "build">> \o NewOrder \o <<"idle", "reset">> \o DropOrder \o <<"done">>

After(at) == RunOrder[(CHOOSE i \in 1 .. Len(RunOrder) : RunOrder[i] = at) + 1]

\* The range a step of run() patches.
Range(at) == IF at \in {"new_jmp", "drop_jmp"} THEN "entry" ELSE "cave"

Bytes(range) == IF range = "entry" THEN entry ELSE cave

NoCopy == [stage |-> "none", bytes |-> <<>>, done |-> 0, old_protection |-> 0]

\* Patch::new without the copy into original_bytes.
Patch_new_no_capture(current, new_bytes) ==
    [original_bytes |-> [i \in 1 .. Len(new_bytes) |-> 0],
     write |-> new_bytes]

\* Patch::new: capture the bytes at the address, then write the new ones.
Patch_new(current, new_bytes) ==
    [original_bytes |-> current,
     write |-> new_bytes]

\* Host threads inside the trampoline at once.
MaxInside == 1

\* Where run() may find ProcessEvent and the code cave: the cave above
\* the function, below it, and on the other side of a 4 GiB boundary.
Layouts ==
    { [process_event |-> <<\h00, \h10, \h40, \h40, \h01, \h00, \h00, \h00>>,
       code_cave     |-> <<\hF0, \hFF, \h7F, \h41, \h01, \h00, \h00, \h00>>],
      [process_event |-> <<\h00, \h10, \h40, \h40, \h01, \h00, \h00, \h00>>,
       code_cave     |-> <<\h10, \h00, \h00, \h40, \h01, \h00, \h00, \h00>>],
      [process_event |-> <<\hFA, \hFF, \hFF, \hFF, \h00, \h00, \h00, \h00>>,
       code_cave     |-> <<\h00, \h01, \h00, \h00, \h01, \h00, \h00, \h00>>] }

\* The locals of ProcessEventHook::new: the two patches.
Build ==
    /\ pc = "build"
    /\ hook' = [code_cave_patch |->
                    code_cave_patch(addr.process_event, addr.code_cave,
                                    SubSeq(entry, 1, 6)),
                jmp_patch |-> jmp_patch(addr.process_event, addr.code_cave),
                jmp |-> <<>>,
                code_cave |-> <<>>]
    /\ pc' = After(pc)
    /\ UNCHANGED <<addr, entry, cave, copy, protection, fetched, inside, boot>>

\* Patch::new of one field of the ProcessEventHook literal, up to the
\* call of write.
NewPatch ==
    /\ pc \in {"new_jmp", "new_cave"}
    /\ copy.stage = "none"
    /\ LET patch == Patch_new(Bytes(Range(pc)),
                              IF pc = "new_jmp" THEN hook.jmp_patch
                              ELSE hook.code_cave_patch)
       IN  /\ hook' = IF pc = "new_jmp"
                      THEN [hook EXCEPT !.jmp = patch.original_bytes]
                      ELSE [hook EXCEPT !.code_cave = patch.original_bytes]
           /\ copy' = [NoCopy EXCEPT !.stage = "protect",
                                     !.bytes = patch.write]
    /\ UNCHANGED <<addr, entry, cave, pc, protection, fetched, inside, boot>>

\* Patch::drop of one field, up to the call of write.
DropPatch ==
    /\ pc \in {"drop_jmp", "drop_cave"}
    /\ copy.stage = "none"
    /\ copy' = [NoCopy EXCEPT !.stage = "protect",
                              !.bytes = IF pc = "drop_jmp" THEN hook.jmp
                                        ELSE hook.code_cave]
    /\ UNCHANGED <<addr, entry, cave, hook, pc, protection, fetched, inside, boot>>

\* Patch::write, first VirtualProtect.
WriteProtect ==
    /\ copy.stage = "protect"
    /\ protection' =
           [protection EXCEPT ![Range(pc)] = PAGE_EXECUTE_READWRITE]
    /\ copy' = [copy EXCEPT !.stage = "copy",
                            !.old_protection = protection[Range(pc)]]
    /\ UNCHANGED <<addr, entry, cave, hook, pc, fetched, inside, boot>>

\* Patch::write, first VirtualProtect, when the call fails: the result is
\* not looked at, the protection and old_protection stay as they were.
WriteProtectFails ==
    /\ copy.stage = "protect"
    /\ copy' = [copy EXCEPT !.stage = "copy"]
    /\ UNCHANGED <<addr, entry, cave, hook, pc, protection, fetched, inside, boot>>

\* Patch::write, copy_from_slice into a page that is not writable: the
\* first store is an access violation.
WriteCopyFaults ==
    /\ copy.stage = "copy"
    /\ protection[Range(pc)] \notin Writable
    /\ copy' = [copy EXCEPT !.stage = "fault"]
    /\ UNCHANGED <<addr, entry, cave, hook, pc, protection, fetched, inside, boot>>

\* Patch::write, copy_from_slice: the bytes land in ascending order, in
\* stores of a width the build chooses.
WriteCopy(n) ==
    /\ copy.stage = "copy"
    /\ protection[Range(pc)] \in Writable
    /\ n \in 1 .. (Len(copy.bytes) - copy.done)
    /\ LET written == [i \in 1 .. Len(Bytes(Range(pc))) |->
                          IF i > copy.done /\ i <= copy.done + n
                          THEN copy.bytes[i] ELSE Bytes(Range(pc))[i]]
       IN  IF Range(pc) = "entry"
           THEN entry' = written /\ cave' = cave
           ELSE cave' = written /\ entry' = entry
    /\ copy' = [copy EXCEPT !.done = copy.done + n,
                            !.stage = IF copy.done + n = Len(copy.bytes)
                                      THEN "unprotect" ELSE "copy"]
    /\ UNCHANGED <<addr, hook, pc, protection, fetched, inside, boot>>

\* Patch::write, second VirtualProtect and FlushInstructionCache; the
\* caller goes on.
WriteUnprotect ==
    /\ copy.stage = "unprotect"
    /\ copy.old_protection # 0
    /\ protection' = [protection EXCEPT ![Range(pc)] = copy.old_protection]
    /\ copy' = NoCopy
    /\ pc' = After(pc)
    /\ UNCHANGED <<addr, entry, cave, hook, fetched, inside, boot>>

\* Patch::write, second VirtualProtect, when the call fails (as it does
\* for the protection value 0): the result is not looked at.
WriteUnprotectFails ==
    /\ copy.stage = "unprotect"
    /\ copy' = NoCopy
    /\ pc' = After(pc)
    /\ UNCHANGED <<addr, entry, cave, hook, protection, fetched, inside, boot>>

\* common::idle() returns.
Idle ==
    /\ pc = "idle"
    /\ pc' = After(pc)
    /\ UNCHANGED <<addr, entry, cave, hook, copy, protection, fetched, inside, boot>>

\* The loop over RESET_THESE_SEEN_COUNTS ends.
Reset ==
    /\ pc = "reset"
    /\ pc' = After(pc)
    /\ UNCHANGED <<addr, entry, cave, hook, copy, protection, fetched, inside, boot>>

\* win::Sleep(100) returns.
Sleep ==
    /\ pc = "sleep"
    /\ pc' = After(pc)
    /\ UNCHANGED <<addr, entry, cave, hook, copy, protection, fetched, inside, boot>>

\* A host thread calls ProcessEvent and fetches the bytes at its entry.
HostFetch ==
    /\ fetched' = entry
    /\ fetched' # fetched
    /\ UNCHANGED <<addr, entry, cave, hook, pc, copy, protection, inside, boot>>

\* ProcessEventHook::new has built its two patches.
HookBuilt == DOMAIN hook # {}

\* A host thread calls ProcessEvent while its entry holds the jump: it
\* goes through the trampoline into my_process_event.
HostEnter ==
    /\ HookBuilt
    /\ entry = hook.jmp_patch
    /\ inside < MaxInside
    /\ inside' = inside + 1
    /\ UNCHANGED <<addr, entry, cave, hook, pc, copy, protection, fetched, boot>>

\* A host thread leaves the trampoline through its final jump.
HostLeave ==
    /\ inside > 0
    /\ inside' = inside - 1
    /\ UNCHANGED <<addr, entry, cave, hook, pc, copy, protection, fetched, boot>>

\* The one-time lookups of run(), in the order it makes them
\* (lib.rs:188-228), each with the error a miss is turned into.
Lookups ==
    <<"current", "name_pool", "object_array", "global_engine", "code_cave",
      "process_event">>

ErrorOf ==
    [current |-> "Module",
     name_pool |-> "Common(FindNamePoolData)",
     object_array |-> "Common(Object(FindGUObjectArray))",
     global_engine |-> "FindGlobalEngine",
     code_cave |-> "NoCodeCave",
     process_event |-> "FindProcessEvent"]

\* The address a lookup stores in a global.
FOUND == 1

IdlePrompt == "Idling. Press enter to continue."

NoBoot ==
    [tries |-> [l \in {Lookups[i] : i \in 1 .. Len(Lookups)} |-> 0],
     missing |-> "",
     result |-> "",
     NamePoolData |-> NULL,
     GUObjectArray |-> NULL,
     GEngine |-> NULL,
     log |-> <<>>,
     enter |-> FALSE]

\* One lookup of run(): the pattern is found in the module or it is not;
\* a miss makes run() return its error through `?`.
Lookup(found) ==
    /\ pc \in {Lookups[i] : i \in 1 .. Len(Lookups)}
    /\ boot' = [boot EXCEPT
                    !.tries[pc] = @ + 1,
                    !.missing = IF found THEN @ ELSE pc,
                    !.result = IF found THEN @ ELSE ErrorOf[pc],
                    !.NamePoolData =
                        IF found /\ pc = "name_pool" THEN FOUND ELSE @,
                    !.GUObjectArray =
                        IF found /\ pc = "object_array" THEN FOUND ELSE @,
                    !.GEngine =
                        IF found /\ pc = "global_engine" THEN FOUND ELSE @]
    /\ pc' = IF found THEN After(pc) ELSE "failed"
    /\ UNCHANGED <<addr, entry, cave, hook, copy, protection, fetched, inside>>

\* on_attach: run() returned an error, which is logged.
LogError ==
    /\ pc = "failed"
    /\ boot' = [boot EXCEPT !.log = Append(@, "error: " \o boot.result)]
    /\ pc' = "logged"
    /\ UNCHANGED <<addr, entry, cave, hook, copy, protection, fetched, inside>>

\* on_attach: common::idle() logs its prompt; win::idle() has an empty body
\* and returns at once.
IdleAfterError ==
    /\ pc = "logged"
    /\ boot' = [boot EXCEPT !.log = Append(@, IdlePrompt)]
    /\ pc' = "idled"
    /\ UNCHANGED <<addr, entry, cave, hook, copy, protection, fetched, inside>>

\* on_attach: FreeConsole and FreeLibraryAndExitThread.
Unload ==
    /\ pc \in {"idled", "done"}
    /\ pc' = "unloaded"
    /\ UNCHANGED <<addr, entry, cave, hook, copy, protection, fetched, inside,
                   boot>>

\* The operator answers the prompt on the console.
OperatorEnter ==
    /\ boot.log # <<>>
    /\ boot.log[Len(boot.log)] = IdlePrompt
    /\ ~boot.enter
    /\ boot' = [boot EXCEPT !.enter = TRUE]
    /\ UNCHANGED <<addr, entry, cave, hook, pc, copy, protection, fetched,
                   inside>>

NoTable ==
    /\ NumElements = 0
    /\ items = <<>>
    /\ nextSerial = 1
    /\ hostOps = 0

InitHook ==
    /\ NoTable
    /\ ret = NoCall
    /\ NoClasses
    /\ NoIterator
    /\ addr \in Layouts
    /\ entry = ProcessEventPrologue
    /\ \E fill \in CaveFills :
           cave = [i \in 1 .. Len(code_cave_patch(addr.process_event,
                                                  addr.code_cave, entry)) |->
                      fill]
    /\ hook = <<>>
    /\ pc = RunOrder[1]
    /\ copy = NoCopy
    /\ protection = [entry |-> PAGE_EXECUTE_READ, cave |-> PAGE_EXECUTE_READ]
    /\ fetched = <<>>
    /\ inside = 0
    /\ boot = NoBoot
    /\ NoCallback

NextHook ==
    /\ \/ Build
       \/ NewPatch
       \/ DropPatch
       \/ WriteProtect
       \/ \E n \in 1 .. Len(copy.bytes) : WriteCopy(n)
       \/ WriteUnprotect
       \/ WriteProtectFails
       \/ WriteCopyFaults
       \/ WriteUnprotectFails
       \/ Idle
       \/ Reset
       \/ Sleep
       \/ HostFetch
       \/ HostEnter
       \/ HostLeave
       \/ \E found \in BOOLEAN : Lookup(found)
       \/ LogError
       \/ IdleAfterError
       \/ Unload
       \/ OperatorEnter
    /\ UNCHANGED <<tableVars, hostOps, ret, classVars, iterVars, callbackVars>>

SpecHook == InitHook /\ [][NextHook]_vars

\* C7: once the hook has been attached and detached again, the six
\* bytes at the entry of ProcessEvent are the bytes that were there
\* before the attach.
C7_AttachDetachRestoresEntry ==
    pc = "done" => entry = ProcessEventPrologue

C7_Witness ==
    /\ pc = "done"
    /\ hook.jmp = ProcessEventPrologue
    /\ entry = ProcessEventPrologue
    /\ fetched = hook.jmp_patch

\* C8: detach restores the entry bytes, then waits, then restores the
\* cave bytes, in that order; while detach runs, whenever any byte of
\* the trampoline has been replaced the entry no longer holds any byte
\* of the jump.
C8_DetachOrder ==
    [][/\ pc = "reset" /\ pc' # pc => pc' = "drop_jmp"
       /\ pc = "drop_jmp" /\ pc' # pc => pc' = "sleep"
       /\ pc = "sleep" /\ pc' # pc => pc' = "drop_cave"
       /\ pc = "drop_cave" /\ pc' # pc => pc' = "done"
       /\ pc' \in {"drop_jmp", "sleep", "drop_cave", "done"}
              /\ cave' # hook'.code_cave_patch
          => entry' = hook'.jmp /\ entry' # hook'.jmp_patch]_vars

C8_Witness ==
    /\ pc = "drop_cave"
    /\ copy.stage = "copy"
    /\ copy.done > 0
    /\ cave # hook.code_cave_patch
    /\ entry = hook.jmp

\* C9: whenever the entry of ProcessEvent holds the jump into the cave,
\* the cave holds the whole trampoline.
C9_TrampolineBeforeJump ==
    HookBuilt /\ entry = hook.jmp_patch => cave = hook.code_cave_patch

\* C10: a host thread fetching the entry of ProcessEvent sees the
\* original six bytes or the six bytes of the jump, never a mixture.
C10_EntryWriteAtomic ==
    HookBuilt /\ fetched # <<>> =>
        fetched \in {ProcessEventPrologue, hook.jmp_patch}

\* C11: while detach writes the original bytes back over the trampoline,
\* no host thread is executing in the trampoline or in the callback.
C11_NoThreadInsideWhenCaveRestored ==
    pc = "drop_cave" /\ copy.stage \in {"copy", "unprotect"} => inside = 0

\* --------------------------------------------------------- formatting

\* FName::number of an object's name: 0 for a name without a suffix, n + 1
\* for the suffix _n.  The second Bar Level1.Zone1.Foo is Foo_1.
NameNumber(o) == IF o = Len(NamedObjects) - 1 THEN 2 ELSE 0

\* A number as its decimal digits.
RECURSIVE Decimal(_)
Decimal(n) ==
    LET digit == <<"0", "1", "2", "3", "4", "5", "6", "7", "8", "9">>[(n % 10) + 1]
    IN  IF n < 10 THEN <<digit>> ELSE Decimal(n \div 10) \o <<digit>>

\* The while loop of fmt (object.rs:340-347): the outers' names, innermost
\* first, until the chain ends or the list of MAX_OUTERS names is full.
RECURSIVE CollectOuters(_, _)
CollectOuters(outer, outers) ==
    IF outer = NULL THEN [outers |-> outers, warned |-> FALSE]
    ELSE IF Len(outers) >= MAX_OUTERS THEN [outers |-> outers, warned |-> TRUE]
    ELSE CollectOuters(UObject(outer).OuterPrivate, Append(outers, name(outer)))

\* The for loop of fmt (object.rs:349-351): the collected names from the
\* last to the first, each followed by a dot.
RECURSIVE WriteReversed(_)
WriteReversed(outers) ==
    IF outers = <<>> THEN <<>>
    ELSE outers[Len(outers)] \o <<".">>
            \o WriteReversed(SubSeq(outers, 1, Len(outers) - 1))

\* A fmt that fails when the list of outers is full.
fmt_failing(self) ==
    LET collected == CollectOuters(UObject(self).OuterPrivate, <<>>) IN
    IF collected.warned
        THEN [kind |-> "Err", out |-> <<>>, warned |-> TRUE]
        ELSE [kind |-> "Ok",
              out |-> name(UObject(self).ClassPrivate) \o <<" ">>
                        \o WriteReversed(collected.outers) \o name(self)
                        \o (IF NameNumber(self) > 0
                                THEN <<"_">> \o Decimal(NameNumber(self) - 1)
                                ELSE <<>>),
              warned |-> FALSE]

\* impl Display for UObject
fmt(self) ==
    LET collected == CollectOuters(UObject(self).OuterPrivate, <<>>) IN
    [kind |-> "Ok",
     out |-> name(UObject(self).ClassPrivate) \o <<" ">>
                \o WriteReversed(collected.outers)
                \o name(self)
                \o (IF NameNumber(self) > 0
                        THEN <<"_">> \o Decimal(NameNumber(self) - 1)
                        ELSE <<>>),
     warned |-> collected.warned]

\* What fmt gives for each object.
Formatted == [o \in 1 .. NumObjs |-> fmt(o)]

CallFmt(i) ==
    /\ i < NumElements
    /\ items[i].Object # NULL
    /\ ret' = [op |-> "fmt", arg |-> items[i].Object,
               res |-> Formatted[items[i].Object]]
    /\ UNCHANGED <<tableVars, hostOps, classVars, iterVars, hookVars, callbackVars>>

NextFmt ==
    \/ \E i \in DOMAIN items : HostDestroyLeaf(i)
    \/ \E i \in DOMAIN items : CallFmt(i)

SpecFmt == InitFind /\ [][NextFmt]_vars

\* C20: formatting an object gives Ok and the text of its class name, a
\* space, its outers' names outermost first with a dot after each, and its
\* name (with its numeric suffix); of more than MAX_OUTERS outers only the
\* MAX_OUTERS innermost are printed, and the warning is logged exactly then.
C20_FormatTruncatesOuters ==
    ret.op = "fmt" =>
        LET o == ret.arg
            kept == SubSeq(Outers[o], 1,
                           IF Len(Outers[o]) > MAX_OUTERS THEN MAX_OUTERS
                           ELSE Len(Outers[o]))
            path == [k \in 1 .. Len(kept) |-> name(kept[Len(kept) + 1 - k])]
            suffix == IF o = 8 THEN <<"_", "1">> ELSE <<>>
        IN  /\ ret.res.kind = "Ok"
            /\ ret.res.out =
                QualifiedText(name(UObject(o).ClassPrivate), path, name(o) \o suffix)
            /\ ret.res.warned <=> (Len(Outers[o]) > MAX_OUTERS)

\* C20 witness: an object with MAX_OUTERS + 1 outers was formatted: the
\* warning was logged and the text names MAX_OUTERS outers, all Z, without
\* the outermost one, Y.
C20_Witness ==
    /\ ret.op = "fmt"
    /\ Len(Outers[ret.arg]) = MAX_OUTERS + 1
    /\ name(Outers[ret.arg][MAX_OUTERS + 1]) = Y
    /\ ret.res.kind = "Ok"
    /\ ret.res.warned
    /\ Len(ret.res.out) = Len(Bar) + 1 + 2 * MAX_OUTERS + 1
    /\ \A k \in 1 .. Len(ret.res.out) : ret.res.out[k] # "Y"

\* ------------------------------------------------- the patched code

\* The length of the instruction whose opcode is at code[at], for the
\* encodings the trampoline and the signature use: push and pop of a
\* register, nop, jmp rel32, mov r, imm (imm64 under REX.W), call through
\* a register, and an ALU operation on a register with imm32.  0 when the
\* opcode is none of these or lies beyond the code.
OpLen(code, at, rex_w) ==
    IF at > Len(code) THEN 0
    ELSE LET op == code[at] IN
         IF op >= \h50 /\ op <= \h5F THEN 1
         ELSE IF op = \h90 THEN 1
         ELSE IF op = \hE9 THEN 5
         ELSE IF op >= \hB8 /\ op <= \hBF THEN (IF rex_w THEN 9 ELSE 5)
         ELSE IF op = \hFF THEN 2
         ELSE IF op = \h81 THEN 6
         ELSE 0

\* The same with an optional REX prefix (40..4F) in front.
InsnLen(code, at) ==
    IF at > Len(code) THEN 0
    ELSE IF code[at] >= \h40 /\ code[at] <= \h4F
        THEN LET n == OpLen(code, at + 1, code[at] >= \h48) IN
             IF n = 0 THEN 0 ELSE n + 1
        ELSE OpLen(code, at, FALSE)

\* The offsets at which instructions start when code is executed from
\* offset `from`, with the offset behind the last instruction decoded.
RECURSIVE Boundaries(_, _)
Boundaries(code, from) ==
    IF from >= Len(code) \/ InsnLen(code, from + 1) = 0 THEN {from}
    ELSE {from} \cup Boundaries(code, from + InsnLen(code, from + 1))

\* a + b at the width of a, byte by byte with a carry.
RECURSIVE AddCarry(_, _, _)
AddCarry(a, b, carry) ==
    IF a = <<>> THEN <<>>
    ELSE <<(a[1] + b[1] + carry) % 256>>
            \o AddCarry(Tail(a), Tail(b), (a[1] + b[1] + carry) \div 256)

\* A rel32 sign-extended to 64 bits.
SignExtend(rel32) ==
    rel32 \o (IF rel32[4] >= 128 THEN <<255, 255, 255, 255>>
                                 ELSE <<0, 0, 0, 0>>)

\* Where the jmp rel32 whose opcode is at `at` goes: the address of the
\* next instruction plus the displacement.
JumpTarget(at, rel32) == AddCarry(AddSmall(at, 5), SignExtend(rel32), 0)

\* A 64-bit distance fits a signed 32-bit displacement.
FitsRel32(distance) ==
    SubSeq(distance, 5, 8) = SubSeq(SignExtend(SubSeq(distance, 1, 4)), 5, 8)

\* C18: the jump patch covers as many bytes as the trampoline re-executes,
\* that number of bytes ends on an instruction boundary of the ProcessEvent
\* signature, the bytes re-executed in the trampoline are the whole
\* instructions in front of that boundary, and in the trampoline they
\* start and end on instruction boundaries, followed by the final jump.
C18_StolenBytesAreWholeInstructions ==
    HookBuilt =>
        /\ Len(hook.jmp_patch) \in Boundaries(ProcessEventSignature, 0)
        /\ Len(hook.jmp) = Len(hook.jmp_patch) \/ hook.jmp = <<>>
        /\ SubSeq(hook.code_cave_patch, 21, 20 + Len(hook.jmp_patch))
                = SubSeq(ProcessEventSignature, 1, Len(hook.jmp_patch))
        /\ {20, 20 + Len(hook.jmp_patch), Len(hook.code_cave_patch)}
                \subseteq Boundaries(hook.code_cave_patch, 0)
        /\ hook.code_cave_patch[21 + Len(hook.jmp_patch)] = \hE9
        /\ Boundaries(hook.jmp_patch, 0) = {0, 5, Len(hook.jmp_patch)}

\* C18 witness: a host thread is in the trampoline, behind the jump at the
\* entry, with the stolen bytes in place.
C18_Witness ==
    /\ HookBuilt
    /\ entry = hook.jmp_patch
    /\ cave = hook.code_cave_patch
    /\ inside = 1
    /\ SubSeq(cave, 21, 26) = ProcessEventPrologue

\* C19: the displacement of the entry jump is the low 32 bits of
\* C - (T + 5) and that of the trampoline's final jump, whose opcode is at
\* C + 26, the low 32 bits of (T + 6) - (C + 31); when the distances fit a
\* signed 32-bit displacement the entry jump goes to C and the final jump
\* to T + 6.
C19_JumpsReachTheirTargets ==
    HookBuilt =>
        LET T == addr.process_event
            C == addr.code_cave
            to_cave == wrapping_sub(C, AddSmall(T, 5))
            to_target == wrapping_sub(AddSmall(T, 6), AddSmall(C, 31))
            entry_rel32 == SubSeq(hook.jmp_patch, 2, 5)
            final_rel32 == SubSeq(hook.code_cave_patch, 28, 31)
        IN  /\ hook.jmp_patch[1] = \hE9
            /\ entry_rel32 = SubSeq(to_cave, 1, 4)
            /\ hook.code_cave_patch[27] = \hE9
            /\ Len(hook.code_cave_patch) = 31
            /\ final_rel32 = SubSeq(to_target, 1, 4)
            /\ FitsRel32(to_cave) => JumpTarget(T, entry_rel32) = C
            /\ FitsRel32(to_target) =>
                    JumpTarget(AddSmall(C, 26), final_rel32) = AddSmall(T, 6)

\* C19 witness: the hook is installed with the cave below ProcessEvent, so
\* the entry jump goes backwards and the final jump forwards, both within
\* reach.
C19_Witness ==
    /\ HookBuilt
    /\ entry = hook.jmp_patch
    /\ cave = hook.code_cave_patch
    /\ hook.jmp_patch[5] = \hFF
    /\ hook.code_cave_patch[31] = \h00
    /\ FitsRel32(wrapping_sub(addr.code_cave, AddSmall(addr.process_event, 5)))
    /\ \E other \in Layouts : other.code_cave[1] # addr.code_cave[1]

\* ----------------------------------------------------------- the callback

\* Functions the host calls, and host threads calling them.
MaxFunctions == 1
MaxCallers == 2

\* The capacity of RESET_THESE_SEEN_COUNTS, and MAX_PRINTS.
CAPACITY == 4096
MAX_PRINTS == 1

Functions == 1 .. MaxFunctions

\* The list holds `others` entries for functions other than Functions,
\* then the entries of `pushed` in the order they were pushed.
ListLen(list) == list.others + Len(list.pushed)

\* List::push: the element is appended unless the list is at capacity.
push(list, function) ==
    IF ListLen(list) < CAPACITY
        THEN [is_err |-> FALSE,
              list |-> [list EXCEPT !.pushed = Append(@, function)]]
        ELSE [is_err |-> TRUE, list |-> list]

\* The first `if` of my_process_event with a body that does not return.
first_if_falls_through(seen, list, function) ==
    IF seen = 0
        THEN LET pushed == push(list, function) IN
             [return |-> FALSE, warn |-> pushed.is_err, list |-> pushed.list]
        ELSE [return |-> FALSE, warn |-> FALSE, list |-> list]

\* The first `if` of my_process_event (lib.rs:295-298): push is only
\* evaluated for seen_count == 0; when it fails the warning is logged and
\* the callback returns.
first_if(seen, list, function) ==
    IF seen = 0
        THEN LET pushed == push(list, function) IN
             [return |-> pushed.is_err, warn |-> pushed.is_err,
              list |-> pushed.list]
        ELSE [return |-> FALSE, warn |-> FALSE, list |-> list]

NoCaller == [at |-> "host", function |-> 0, seen_count |-> 0, warned |-> FALSE]

\* A host thread calls ProcessEvent(object, function): the trampoline calls
\* my_process_event, which reads the function's seen_count.
Intercept(t, function) ==
    /\ callers[t].at = "host"
    /\ callers' = [callers EXCEPT ![t] =
                      [at |-> "first_if", function |-> function,
                       seen_count |-> seen_count[function], warned |-> FALSE]]
    /\ UNCHANGED <<seen_count, RESET_THESE_SEEN_COUNTS, ret, reset_iter>>

FirstIf(t) ==
    /\ callers[t].at = "first_if"
    /\ LET out == first_if(callers[t].seen_count, RESET_THESE_SEEN_COUNTS,
                           callers[t].function)
       IN  /\ RESET_THESE_SEEN_COUNTS' = out.list
           /\ callers' = [callers EXCEPT
                             ![t].at = IF out.return THEN "trampoline"
                                       ELSE "second_if",
                             ![t].warned = out.warn]
    /\ UNCHANGED <<seen_count, ret, reset_iter>>

\* The second `if` (lib.rs:300-322): a function seen fewer than MAX_PRINTS
\* times is counted and printed.
SecondIf(t) ==
    /\ callers[t].at = "second_if"
    /\ seen_count' =
            IF callers[t].seen_count < MAX_PRINTS
                THEN [seen_count EXCEPT ![callers[t].function] = @ + 1]
                ELSE seen_count
    /\ callers' = [callers EXCEPT ![t].at = "trampoline"]
    /\ UNCHANGED <<RESET_THESE_SEEN_COUNTS, ret, reset_iter>>

\* my_process_event has returned: the trampoline restores the registers,
\* runs the stolen bytes and jumps into ProcessEvent.
Resume(t) ==
    /\ callers[t].at = "trampoline"
    /\ ret' = [op |-> "ProcessEvent", arg |-> callers[t].function,
               res |-> [warned |-> callers[t].warned, original |-> TRUE]]
    /\ callers' = [callers EXCEPT ![t] = NoCaller]
    /\ UNCHANGED <<seen_count, RESET_THESE_SEEN_COUNTS, reset_iter>>

\* The list starts empty, or holds functions the host called earlier, up
\* to its capacity.
InitCallback ==
    /\ NoTable
    /\ ret = NoCall
    /\ NoClasses /\ NoIterator /\ NoHook
    /\ seen_count = [f \in Functions |-> 0]
    /\ \E others \in {0} \cup (CAPACITY - MaxFunctions .. CAPACITY) :
            RESET_THESE_SEEN_COUNTS = [others |-> others, pushed |-> <<>>]
    /\ callers = [t \in 1 .. MaxCallers |-> NoCaller]
    /\ reset_iter = <<>>

NextCallback ==
    /\ \/ \E t \in 1 .. MaxCallers : \E f \in Functions : Intercept(t, f)
       \/ \E t \in 1 .. MaxCallers : FirstIf(t)
       \/ \E t \in 1 .. MaxCallers : SecondIf(t)
       \/ \E t \in 1 .. MaxCallers : Resume(t)
    /\ UNCHANGED <<tableVars, hostOps, classVars, iterVars, hookVars>>

SpecCallback == InitCallback /\ [][NextCallback]_vars

\* C16: when a thread in my_process_event has read seen_count 0 and the
\* list holds CAPACITY entries, its next step logs the warning and returns
\* to the trampoline with every seen_count and the list unchanged; a thread
\* back in the trampoline goes on into the original ProcessEvent with the
\* function it was called with.
C16_FullListWarnsAndReturns ==
    [][\A t \in 1 .. MaxCallers :
        /\ (/\ callers[t].at = "first_if"
            /\ callers'[t] # callers[t]
            /\ callers[t].seen_count = 0
            /\ ListLen(RESET_THESE_SEEN_COUNTS) = CAPACITY)
           => /\ callers'[t].warned
              /\ callers'[t].at = "trampoline"
              /\ seen_count' = seen_count
              /\ RESET_THESE_SEEN_COUNTS' = RESET_THESE_SEEN_COUNTS
        /\ (callers[t].at = "trampoline" /\ callers'[t] # callers[t])
           => /\ callers'[t].at = "host"
              /\ ret'.op = "ProcessEvent"
              /\ ret'.arg = callers[t].function
              /\ ret'.res.original
              /\ ret'.res.warned = callers[t].warned]_vars

\* C16 witness: a call of a function never seen before went through with
\* the warning, the list being full, and the function still counts as unseen.
C16_Witness ==
    /\ ret.op = "ProcessEvent"
    /\ ret.res.warned
    /\ ret.res.original
    /\ seen_count[ret.arg] = 0
    /\ ListLen(RESET_THESE_SEEN_COUNTS) = CAPACITY
    /\ \A k \in 1 .. Len(RESET_THESE_SEEN_COUNTS.pushed) :
            RESET_THESE_SEEN_COUNTS.pushed[k] # ret.arg

\* C22: every function whose seen_count is not 0 is in the list, no
\* function is in the list twice, and the list holds at most CAPACITY
\* entries.
C22_SeenFunctionsRecordedOnce ==
    /\ \A f \in Functions :
        /\ seen_count[f] # 0 =>
                \E k \in 1 .. Len(RESET_THESE_SEEN_COUNTS.pushed) :
                    RESET_THESE_SEEN_COUNTS.pushed[k] = f
        /\ Cardinality({k \in 1 .. Len(RESET_THESE_SEEN_COUNTS.pushed) :
                            RESET_THESE_SEEN_COUNTS.pushed[k] = f}) <= 1
    /\ ListLen(RESET_THESE_SEEN_COUNTS) <= CAPACITY

\* ------------------------------------------------------------ teardown

\* run() from common::idle() on (lib.rs:232-239), with host threads in
\* my_process_event.  The jump at the entry of ProcessEvent is in place
\* until the ProcessEventHook is dropped, which is at the end of run(),
\* after the loop over RESET_THESE_SEEN_COUNTS.
Installed == pc \in {"idle", "reset", "drop_jmp"}

\* A host thread calls ProcessEvent while the jump is in place.
InterceptInstalled(t, function) ==
    /\ Installed
    /\ Intercept(t, function)

\* common::idle() returns and RESET_THESE_SEEN_COUNTS.iter() is made: it
\* runs over the entries the list holds at that moment.  The entries for
\* functions other than Functions come first and are not followed here.
TeardownIdle ==
    /\ pc = "idle"
    /\ pc' = After(pc)
    /\ reset_iter' = [index |-> 1,
                      end |-> Len(RESET_THESE_SEEN_COUNTS.pushed)]
    /\ UNCHANGED <<seen_count, RESET_THESE_SEEN_COUNTS, callers, ret>>

\* One round of the loop: (*function).seen_count = 0.
ResetNext ==
    /\ pc = "reset"
    /\ reset_iter.index <= reset_iter.end
    /\ seen_count' = [seen_count EXCEPT
                         ![RESET_THESE_SEEN_COUNTS.pushed[reset_iter.index]] = 0]
    /\ reset_iter' = [reset_iter EXCEPT !.index = @ + 1]
    /\ UNCHANGED <<pc, RESET_THESE_SEEN_COUNTS, callers, ret>>

\* The iterator is exhausted; run() reaches the end of its scope, where the
\* ProcessEventHook is dropped.
ResetEnd ==
    /\ pc = "reset"
    /\ reset_iter.index > reset_iter.end
    /\ pc' = After(pc)
    /\ UNCHANGED <<callbackVars, ret>>

\* ProcessEventHook::drop: the jump is taken out, Sleep(100) returns, the
\* code cave is restored, and run() returns.
TeardownDrop ==
    /\ \E i \in 1 .. Len(DropOrder) : DropOrder[i] = pc
    /\ pc' = After(pc)
    /\ UNCHANGED <<callbackVars, ret>>

InitTeardown ==
    /\ NoTable
    /\ ret = NoCall
    /\ NoClasses /\ NoIterator
    /\ addr = <<>> /\ entry = <<>> /\ cave = <<>> /\ hook = <<>>
    /\ copy = <<>> /\ protection = <<>> /\ fetched = <<>>
    /\ inside = 0 /\ boot = <<>>
    /\ pc = "idle"
    /\ seen_count = [f \in Functions |-> 0]
    /\ \E others \in {0} \cup (CAPACITY - MaxFunctions .. CAPACITY) :
            RESET_THESE_SEEN_COUNTS = [others |-> others, pushed |-> <<>>]
    /\ callers = [t \in 1 .. MaxCallers |-> NoCaller]
    /\ reset_iter = <<>>

NextTeardown ==
    /\ \/ /\ \/ \E t \in 1 .. MaxCallers : \E f \in Functions :
                    InterceptInstalled(t, f)
             \/ \E t \in 1 .. MaxCallers : FirstIf(t)
             \/ \E t \in 1 .. MaxCallers : SecondIf(t)
             \/ \E t \in 1 .. MaxCallers : Resume(t)
          /\ UNCHANGED pc
       \/ TeardownIdle
       \/ ResetNext
       \/ ResetEnd
       \/ TeardownDrop
    /\ UNCHANGED <<addr, entry, cave, hook, copy, protection, fetched, inside, boot>>
    /\ UNCHANGED <<tableVars, hostOps, classVars, iterVars>>

SpecTeardown == InitTeardown /\ [][NextTeardown]_vars

\* C23: once run() has returned, the hook is removed and no thread is left
\* in the callback, the seen_count of every function is 0.
C23_SeenCountsZeroAfterTeardown ==
    (/\ pc = "done"
     /\ \A t \in 1 .. MaxCallers : callers[t].at = "host")
    => \A f \in Functions : seen_count[f] = 0

\* --------------------------------------------------- find, step by step

\* find as the steps it takes, on tables that hold objects whose chain of
\* outers is cyclic.  The queries have up to MaxCycleOuters outers, and
\* MAX_OUTERS and one more.
MaxCycleOuters == 2

RECURSIVE CyclePaths(_)
CyclePaths(n) ==
    IF n = 0 THEN {<<>>}
    ELSE CyclePaths(n - 1) \cup
         {<<o>> \o p : o \in {Z, Foo, Zone1},
                       p \in {q \in CyclePaths(n - 1) : Len(q) = n - 1}}

CycleQueries ==
    {QualifiedText(Bar, path, nm) :
        path \in CyclePaths(MaxCycleOuters)
                 \cup {DeepPath(n) : n \in MAX_OUTERS .. MAX_OUTERS + 1},
        nm \in {Z, Foo}}

\* The objects in the slots of the tables, in the order of their indices.
CycleTables ==
    { <<SelfOuter, NULL, PairA, PairB, 9>>,
      <<9, 5, PairB, PairA, SelfOuter>>,
      <<>> }

NoFind ==
    [at |-> "idle", text |-> <<>>, class |-> <<>>, name |-> <<>>,
     outers |-> <<>>, object |-> NULL, my_outer |-> NULL, k |-> 0,
     links |-> 0, visited |-> <<>>]

\* A round of the loop over target.outers that, where the names differ,
\* goes on to the next outer of the candidate with the same target outer.
outers_round_searching(my_outer, outers, k) ==
    IF my_outer = NULL
        THEN [continue_outer |-> TRUE, my_outer |-> my_outer, k |-> k, followed |-> 0]
    ELSE IF name(my_outer) # outers[k]
        THEN [continue_outer |-> FALSE, my_outer |-> UObject(my_outer).OuterPrivate,
              k |-> k, followed |-> 1]
    ELSE [continue_outer |-> FALSE, my_outer |-> UObject(my_outer).OuterPrivate,
          k |-> k + 1, followed |-> 1]

\* One round of the loop over target.outers (object.rs:127-145), with the
\* k-th target outer: `continue 'outer` when the candidate has no outer left
\* or the names differ, else my_outer advances and the loop takes the next
\* target outer.  followed is 1 when the round went to the object my_outer
\* points to.
outers_round(my_outer, outers, k) ==
    IF my_outer = NULL
        THEN [continue_outer |-> TRUE, my_outer |-> my_outer, k |-> k, followed |-> 0]
    ELSE IF name(my_outer) # outers[k]
        THEN [continue_outer |-> TRUE, my_outer |-> my_outer, k |-> k, followed |-> 1]
    ELSE [continue_outer |-> FALSE, my_outer |-> UObject(my_outer).OuterPrivate,
          k |-> k + 1, followed |-> 1]

\* find is called: the text is parsed and the iterator is made.
FindBegin(text) ==
    /\ finding.at = "idle"
    /\ LET target == CHOOSE t \in {FullName(text)} : TRUE IN
       IF ~target.ok
          THEN /\ ret' = [op |-> "find", arg |-> text,
                          res |-> Err(target.err, <<>>, 0)]
               /\ finding' = [NoFind EXCEPT !.text = text]
               /\ UNCHANGED <<iterator, yielded>>
          ELSE /\ finding' = [NoFind EXCEPT !.at = "next", !.text = text,
                                            !.class = target.class,
                                            !.name = target.name,
                                            !.outers = target.outers]
               /\ iterator' = iter
               /\ yielded' = <<>>
               /\ UNCHANGED ret
    /\ UNCHANGED <<tableVars, hostOps, classVars, hookVars, callbackVars>>

\* The 'outer loop takes the next object from the iterator
\* (object.rs:103-125): the end of the table, a null object, an object of
\* another name or class, or a candidate whose outers are to be walked.
FindNext ==
    /\ finding.at = "next"
    /\ LET r == ObjectIterator_next(iterator)
           object == r.item.object
       IN  /\ iterator' = r.self
           /\ IF ~r.item.some
                 THEN /\ ret' = [op |-> "find", arg |-> finding.text,
                                 res |-> Err("UnableToFind", finding.text,
                                             iterator.index)]
                      /\ finding' = [finding EXCEPT !.at = "idle"]
                      /\ UNCHANGED yielded
                 ELSE /\ yielded' = Append(yielded, object)
                      /\ UNCHANGED ret
                      /\ IF \/ object = NULL
                            \/ name(object) # finding.name
                            \/ name(UObject(object).ClassPrivate) # finding.class
                            THEN finding' =
                                    [finding EXCEPT
                                        !.visited = Append(@, iterator.index)]
                            ELSE finding' =
                                    [finding EXCEPT
                                        !.at = "outers",
                                        !.visited = Append(@, iterator.index),
                                        !.object = object,
                                        !.my_outer = UObject(object).OuterPrivate,
                                        !.k = 1,
                                        !.links = 0]
    /\ UNCHANGED <<tableVars, hostOps, classVars, hookVars, callbackVars>>

\* The loop over target.outers takes its next round, or has ended and find
\* returns the candidate (object.rs:127-149).
FindOuter ==
    /\ finding.at = "outers"
    /\ IF finding.k > Len(finding.outers)
          THEN /\ ret' = [op |-> "find", arg |-> finding.text,
                          res |-> Ok(finding.object, iterator.index)]
               /\ finding' = [finding EXCEPT !.at = "idle"]
          ELSE LET round == outers_round(finding.my_outer, finding.outers,
                                         finding.k)
               IN  /\ finding' =
                        [finding EXCEPT
                            !.at = IF round.continue_outer THEN "next" ELSE "outers",
                            !.my_outer = round.my_outer,
                            !.k = round.k,
                            !.links = @ + round.followed]
                   /\ UNCHANGED ret
    /\ UNCHANGED <<tableVars, hostOps, classVars, hookVars, callbackVars>>
    /\ UNCHANGED <<iterator, yielded>>

InitFindSteps ==
    /\ \E table \in CycleTables :
        /\ NumElements = Len(table)
        /\ items = [i \in 0 .. Len(table) - 1 |->
                        [Object |-> table[i + 1], Flags |-> 0,
                         SerialNumber |-> i + 1]]
        /\ nextSerial = Len(table) + 1
    /\ hostOps = 0
    /\ ret = NoCall
    /\ NoClasses /\ NoHook /\ NoCallback
    /\ iterator = [num_objects |-> 0, index |-> 0]
    /\ yielded = <<>>
    /\ finding = NoFind

FindStep == FindNext \/ FindOuter

NextFindSteps ==
    \/ \E text \in CycleQueries : FindBegin(text)
    \/ FindNext
    \/ FindOuter

\* find runs in one thread, which goes on until find returns.
SpecFindSteps == InitFindSteps /\ [][NextFindSteps]_vars /\ WF_vars(FindStep)

\* C24: a call of find returns; for each candidate it has gone to at most
\* as many outers as the query has outer tokens, which are at most
\* MAX_OUTERS, and no index of the table is taken twice.
C24_FindTerminates ==
    /\ [](/\ finding.links <= Len(finding.outers)
          /\ Len(finding.outers) <= MAX_OUTERS
          /\ Len(finding.visited) <= NumElements
          /\ \A i, j \in 1 .. Len(finding.visited) :
                i # j => finding.visited[i] # finding.visited[j])
    /\ (finding.at # "idle") ~> (finding.at = "idle")

\* C24 witness: find has returned the object that is its own outer for a
\* query of MAX_OUTERS outers, having gone round the cycle MAX_OUTERS times.
C24_Witness ==
    /\ finding.at = "idle"
    /\ ret.op = "find"
    /\ ret.res.kind = "Ok"
    /\ ret.res.object = SelfOuter
    /\ UObject(SelfOuter).OuterPrivate = SelfOuter
    /\ Len(finding.outers) = MAX_OUTERS
    /\ finding.links = MAX_OUTERS

\* ------------------------------------------------------- slot validity

\* C13: for every slot of the table, is_valid is true exactly when the
\* slot's object pointer is non-null and its unreachable and pending-kill
\* bits are clear.
C13_IsValidIffInvariant ==
    \A i \in 0 .. NumElements - 1 :
        is_valid(items[i]) <=>
            /\ items[i].Object # NULL
            /\ BitAnd(items[i].Flags, UNREACHABLE) = 0
            /\ BitAnd(items[i].Flags, PENDING_KILL) = 0

\* ------------------------------------------------------ the memory patch

\* C14: between the writes of Patch the page protection of both patched
\* ranges is what it was before the first write, and once both patches
\* have been made and dropped the bytes of both ranges are the bytes that
\* were there before.
C14_PatchRestoresBytesAndProtection ==
    /\ copy.stage = "none" /\ pc # "none" =>
            protection = [entry |-> PAGE_EXECUTE_READ,
                          cave |-> PAGE_EXECUTE_READ]
    /\ pc = "done" =>
            /\ entry = ProcessEventPrologue
            /\ \E fill \in CaveFills : \A i \in 1 .. Len(cave) : cave[i] = fill

\* ------------------------------------------------------------- startup

\* C15: when a one-time lookup misses, run() returns the error of that
\* lookup, every lookup has been made at most once and none after the
\* miss, no byte and no protection of the host has been changed, a miss of
\* the name pool or the object table leaves GUObjectArray null, and
\* on_attach unloads only after it has logged the error and the operator
\* has answered the idle prompt.
C15_FailedLookupIsFatal ==
    boot.missing # "" =>
        /\ (boot.missing = "name_pool" =>
                boot.result = "Common(FindNamePoolData)")
        /\ (boot.missing = "object_array" =>
                boot.result = "Common(Object(FindGUObjectArray))")
        /\ (boot.missing = "global_engine" => boot.result = "FindGlobalEngine")
        /\ (boot.missing = "code_cave" => boot.result = "NoCodeCave")
        /\ (boot.missing = "process_event" => boot.result = "FindProcessEvent")
        /\ \A i \in 1 .. Len(Lookups) : boot.tries[Lookups[i]] <= 1
        /\ \A i \in 1 .. Len(Lookups) : \A j \in 1 .. i - 1 :
                (Lookups[j] = boot.missing => boot.tries[Lookups[i]] = 0)
        /\ (boot.missing \in {"name_pool", "object_array"} =>
                boot.GUObjectArray = NULL)
        /\ DOMAIN hook = {}
        /\ entry = ProcessEventPrologue
        /\ \E fill \in CaveFills : \A i \in 1 .. Len(cave) : cave[i] = fill
        /\ protection = [entry |-> PAGE_EXECUTE_READ, cave |-> PAGE_EXECUTE_READ]
        /\ pc \in {"failed", "logged", "idled", "unloaded"}
        /\ (pc \in {"logged", "idled", "unloaded"} =>
                boot.log[1] = "error: " \o boot.result)
        /\ (pc \in {"idled", "unloaded"} => boot.log[2] = IdlePrompt)
        /\ (pc = "unloaded" => boot.enter)

====
